---- MODULE Spec2Model ----
(***************************************************************************)
(* A model of the numeric core of the particle-filter tracker:             *)
(*   inc/Container.hpp           distance metrics between sequences,       *)
(*                               point-to-set and set-to-set distances,    *)
(*                               increaseDistance, integral, ...           *)
(*   inc/PositionParticleFilter.h  the tracker's interface                 *)
(*                                                                         *)
(* The template functions are instantiated with T = int.  Every function   *)
(* of Container.hpp is an operator that yields the SET of outcomes a call  *)
(* can have: a returned value, an abort raised by assert(), or a crash     *)
(* where the behaviour is undefined.  assert() is compiled away when the   *)
(* translation unit is built with NDEBUG; the variable ndebug is that      *)
(* build flag.                                                             *)
(***************************************************************************)
EXTENDS Integers, Sequences, FiniteSets, TLC

VARIABLES
    ndebug,     \* TRUE iff the build defines NDEBUG (assert() is a no-op)
    pc,         \* "call" before the operation has run, "done" after
    in,         \* the arguments of the call
    out,        \* the outcome of the call, as seen by the caller
    mem,        \* the containers the call reads and writes through iterators
    state,      \* tracker: "Uninitialized" or "Ready"
    cloud,      \* tracker: the particle cloud
    tracked_object_histogram  \* tracker: the reference histogram

vars == <<ndebug, pc, in, out, mem, state, cloud, tracked_object_histogram>>

trackerVars == <<state, cloud, tracked_object_histogram>>

----------------------------------------------------------------------------
(* Bounds *)

MaxLen == 2          \* longest sequence handed to distance
MaxVal == 2          \* elements of those sequences are in -MaxVal..MaxVal

Elem == (0 - MaxVal)..MaxVal

SeqsUpTo(S, n) == UNION {[1..k -> S] : k \in 0..n}

----------------------------------------------------------------------------
(* Outcomes of a call *)

Value(v) == [kind |-> "value", val |-> v]

\* assert() failed: the process is aborted, nothing is returned
Abort == [kind |-> "abort", val |-> 0]

\* undefined behaviour that ends the process
Crash == [kind |-> "crash", val |-> 0]

\* no call has finished yet
None == [kind |-> "none", val |-> 0]

\* what a read past the end of a container, or a missing return value, can be
Garbage == {0 - 1, 0, 1}

\* undefined behaviour: the process dies or some unspecified value comes back
Undefined == {Crash} \cup {Value(g) : g \in Garbage}

----------------------------------------------------------------------------
(* enum DistanceMetric, enum SetDistanceMetric *)

DistanceMetric ==
    {"DM_EUCLIDEAN", "DM_DOTPRODUCT", "DM_BHATTACHARYYA", "DM_HELLINGER",
     "DM_MANHATTAN", "DM_CHEBYSHEV", "DM_BHATTACHARYYA_COEFFICIENT",
     "DM_SQUARED_HELLINGER", "DM_TYPES"}

\* the eight metrics distance() has a case for
DefinedMetrics == DistanceMetric \ {"DM_TYPES"}

\* the selectors whose value is an integer computation for T = int
IntMetrics ==
    {"DM_EUCLIDEAN", "DM_DOTPRODUCT", "DM_MANHATTAN", "DM_CHEBYSHEV", "DM_TYPES"}

SetDistanceMetric ==
    {"SDM_INFIMIM", "SDM_SUPREMUM", "SDM_HAUSDORFF", "SDM_SUPINF", "SDM_TYPES"}

----------------------------------------------------------------------------
(* Element-wise kernels *)

\* the largest member of a finite set of naturals, 0 for the empty set
MaxOf(S) == IF S = {} THEN 0 ELSE CHOOSE m \in S : \A v \in S : v <= m

MinOf(S) == CHOOSE m \in S : \A v \in S : m <= v

\* std::abs
abs(x) == IF x < 0 THEN 0 - x ELSE x

\* struct max : std::max(x, y)
max(x, y) == IF x < y THEN y ELSE x

plus(x, y) == x + y

multiplies(x, y) == x * y

euclidean_asym(x, y) == (x - y) * (x - y) + x * x

euclidean(x, y) == (x - y) * (x - y)

taxicab_noabs(x, y) == x - y

taxicab(x, y) == abs(x - y)

\* (int) std::sqrt(n): the double result is truncated on conversion to T = int
sqrt(n) == CHOOSE r \in 0..n : r * r <= n /\ (r + 1) * (r + 1) > n

\* For the histogram metrics T is a floating type: a value v of the model
\* stands for the number v / Scale, so that One stands for T(1).
Scale == 100

One == Scale

\* std::sqrt of the number v / Scale, in the same unit
sqrt_real(v) == sqrt(v * Scale)

\* battacharyya(x, y) = std::sqrt(x*y): the root of (x/Scale)*(y/Scale) is
\* sqrt(x*y) / Scale
battacharyya(x, y) == sqrt(x * y)

\* a function object handed to std::inner_product
apply(op, x, y) ==
    CASE op = "plus"       -> plus(x, y)
      [] op = "multiplies" -> multiplies(x, y)
      [] op = "max"        -> max(x, y)
      [] op = "euclidean"  -> euclidean(x, y)
      [] op = "taxicab"    -> taxicab(x, y)
      [] op = "battacharyya" -> battacharyya(x, y)

\* std::inner_product(first1, last1, first2, init, op1, op2):
\* for each i, init = op1(init, op2(*first1, *first2))
inner_product(s1, s2, init, op1, op2) ==
    LET acc[k \in 0..Len(s1)] ==
            IF k = 0 THEN init
            ELSE apply(op1, acc[k - 1], apply(op2, s1[k], s2[k]))
    IN  acc[Len(s1)]

\* the switch of distance(): s2 is at least as long as s1
distance_switch(s1, s2, metric) ==
    CASE metric = "DM_DOTPRODUCT" ->
             inner_product(s1, s2, 0, "plus", "multiplies")
      [] metric = "DM_EUCLIDEAN" ->
             sqrt(inner_product(s1, s2, 0, "plus", "euclidean"))
      [] metric = "DM_CHEBYSHEV" ->
             inner_product(s1, s2, 0, "max", "taxicab")
      [] metric = "DM_MANHATTAN" ->
             inner_product(s1, s2, 0, "plus", "taxicab")
      [] metric = "DM_BHATTACHARYYA_COEFFICIENT" ->
             inner_product(s1, s2, 0, "plus", "battacharyya")
      [] metric = "DM_SQUARED_HELLINGER" ->
             sqrt_real(One - inner_product(s1, s2, 0, "plus", "battacharyya"))
      [] metric \notin DefinedMetrics ->
             0 - 1                                  \* default: return T(-1)

\* distance(first1, last1, first2, last2, metric).  The only length check is
\* an assert(); without it the loop runs over [first1, last1) and reads the
\* second range at the same offsets, past its end when it is the shorter.
distance(s1, s2, metric, nd) ==
    IF Len(s1) # Len(s2) /\ ~nd
    THEN {Abort}
    ELSE IF Len(s2) < Len(s1) /\ metric \in DefinedMetrics
    THEN {Crash} \cup
         {Value(distance_switch(s1, s2 \o pad, metric)) :
              pad \in [1..(Len(s1) - Len(s2)) -> Garbage]}
    ELSE {Value(distance_switch(s1, s2, metric))}

----------------------------------------------------------------------------
(* Specification of a single call of distance() *)

DistInputs ==
    [fn : {"distance"}, s1 : SeqsUpTo(Elem, MaxLen), s2 : SeqsUpTo(Elem, MaxLen),
     metric : IntMetrics]

TrackerIdle ==
    /\ state = "Uninitialized"
    /\ cloud = <<>>
    /\ tracked_object_histogram = <<>>

InitDist ==
    /\ ndebug \in BOOLEAN
    /\ pc = "call"
    /\ in \in DistInputs
    /\ out = None
    /\ mem = <<>>
    /\ TrackerIdle

CallDistance ==
    /\ pc = "call"
    /\ in.fn = "distance"
    /\ out' \in distance(in.s1, in.s2, in.metric, ndebug)
    /\ pc' = "done"
    /\ UNCHANGED <<ndebug, in, mem, trackerVars>>

NextDist == CallDistance

SpecDist == InitDist /\ [][NextDist]_vars

\* A call of distance() on two normalized histograms: non-negative bins that
\* sum to 1
HistogramsOf(n) ==
    {h \in [1..n -> 0..One] : inner_product(h, h, 0, "plus", "max") = One}

HistBins == {1, 2}

HistInputs ==
    UNION {[fn : {"distance"}, s1 : HistogramsOf(n), s2 : HistogramsOf(n),
            metric : {"DM_BHATTACHARYYA_COEFFICIENT", "DM_SQUARED_HELLINGER"}] :
               n \in HistBins}

InitHist ==
    /\ ndebug \in BOOLEAN
    /\ pc = "call"
    /\ in \in HistInputs
    /\ out = None
    /\ mem = <<>>
    /\ TrackerIdle

NextHist == CallDistance

SpecHist == InitHist /\ [][NextHist]_vars

----------------------------------------------------------------------------
(* Point-to-set and set-to-set distances.  A DATASET is std::set<DATAPOINT*>;*)
(* it is modelled by the sequence of its points in iteration order.         *)

MaxCoord == 1        \* the enumerated 1-D points are in 0..MaxCoord
MaxSetSize == 2      \* enumerated sets hold 1..MaxSetSize points

\* comp_point_distance::operator()(x, y): x is closer to the reference than y
comp_point_distance_flipped(x, y, ref, point_metric) ==
    distance_switch(x, ref, point_metric) > distance_switch(y, ref, point_metric)

comp_point_distance(x, y, ref, point_metric) ==
    distance_switch(x, ref, point_metric) < distance_switch(y, ref, point_metric)

\* std::min_element(first_set, last_set, comp_point_distance(...)): the index
\* of the first element that no other element compares less than
min_element(set, ref, point_metric) ==
    LET best[k \in 1..Len(set)] ==
            IF k = 1 THEN 1
            ELSE IF comp_point_distance(set[k], set[best[k - 1]], ref, point_metric)
                 THEN k ELSE best[k - 1]
    IN  best[Len(set)]

\* std::max_element(first_set, last_set, comp_point_distance(...))
max_element(set, ref, point_metric) ==
    LET best[k \in 1..Len(set)] ==
            IF k = 1 THEN 1
            ELSE IF comp_point_distance(set[best[k - 1]], set[k], ref, point_metric)
                 THEN k ELSE best[k - 1]
    IN  best[Len(set)]

\* the switch of distance_to_point() on a non-empty set whose points are no
\* longer than the point
distance_to_point_switch(set, point, set_metric, point_metric) ==
    CASE set_metric = "SDM_INFIMIM" ->
             distance_switch(set[min_element(set, point, point_metric)],
                             point, point_metric)
      [] set_metric = "SDM_SUPREMUM" ->
             distance_switch(set[max_element(set, point, point_metric)],
                             point, point_metric)
      [] OTHER -> 0 - 1         \* default: "Not yet implemented", result = T(-1)

Implemented_point == {"SDM_INFIMIM", "SDM_SUPREMUM"}

Implemented_set == {"SDM_HAUSDORFF", "SDM_SUPINF"}

\* the n first elements of pad appended to the sequence p
Padded(p, pad, n) == p \o [i \in 1..(IF n > Len(p) THEN n - Len(p) ELSE 0) |-> pad[i]]

LongestOf(set) == MaxOf({Len(set[i]) : i \in 1..Len(set)})

\* distance_to_point(first_set, last_set, first_point, last_point, set_metric,
\* point_metric).  Dereferencing min_element's result on an empty set, and
\* reading the point past its end, are undefined.
distance_to_point(set, point, set_metric, point_metric, nd) ==
    IF set_metric \notin Implemented_point THEN {Value(0 - 1)}
    ELSE IF set = <<>> THEN Undefined
    ELSE IF ~nd /\ \E i \in 1..Len(set) : Len(set[i]) # Len(point) THEN {Abort}
    ELSE LET n == LongestOf(set)
             k == IF n > Len(point) THEN n - Len(point) ELSE 0
         IN  (IF k > 0 /\ point_metric \in DefinedMetrics THEN {Crash} ELSE {})
             \cup
             {Value(distance_to_point_switch(set, Padded(point, pad, n),
                                             set_metric, point_metric)) :
                  pad \in [1..k -> Garbage]}

\* comp_point_set_distance::operator()(x, y): x is closer to the set than y
comp_point_set_distance_flipped(x, y, set, set_metric, point_metric) ==
    distance_to_point_switch(set, x, set_metric, point_metric) >
        distance_to_point_switch(set, y, set_metric, point_metric)

comp_point_set_distance(x, y, set, set_metric, point_metric) ==
    distance_to_point_switch(set, x, set_metric, point_metric) <
        distance_to_point_switch(set, y, set_metric, point_metric)

\* std::max_element(first1, last1, comp_point_set_distance(...))
max_element_set(set0, set1, set_metric, point_metric) ==
    LET best[k \in 1..Len(set0)] ==
            IF k = 1 THEN 1
            ELSE IF comp_point_set_distance(set0[best[k - 1]], set0[k], set1,
                                            set_metric, point_metric)
                 THEN k ELSE best[k - 1]
    IN  best[Len(set0)]

\* case SDM_SUPINF of distance_to_set() on non-empty sets, no point of set1
\* longer than a point of set0
supinf_switch(set0, set1, point_metric) ==
    LET tmp == set0[max_element_set(set0, set1, "SDM_INFIMIM", point_metric)]
    IN  distance_to_point_switch(set1, tmp, "SDM_INFIMIM", point_metric)

\* distance_to_set(first1, last1, first2, last2, SDM_SUPINF, point_metric)
distance_to_set_supinf(set0, set1, point_metric, nd) ==
    IF set0 = <<>> \/ set1 = <<>> THEN Undefined
    ELSE IF ~nd /\ \E i \in 1..Len(set0), j \in 1..Len(set1) :
                       Len(set0[i]) # Len(set1[j])
    THEN {Abort}
    ELSE LET n == LongestOf(set1)
             k == MaxOf({IF n > Len(set0[i]) THEN n - Len(set0[i]) ELSE 0 :
                             i \in 1..Len(set0)})
         IN  (IF k > 0 /\ point_metric \in DefinedMetrics THEN {Crash} ELSE {})
             \cup
             {Value(supinf_switch([i \in 1..Len(set0) |-> Padded(set0[i], pad, n)],
                                  set1, point_metric)) :
                  pad \in [1..k -> Garbage]}

\* return std::max(dist_xy, dist_yx), when both calls returned
hausdorff_first_only(dist_xy, dist_yx) ==
    IF dist_xy.kind # "value" THEN dist_xy
    ELSE IF dist_yx.kind # "value" THEN dist_yx
    ELSE Value(dist_xy.val)

hausdorff(dist_xy, dist_yx) ==
    IF dist_xy.kind # "value" THEN dist_xy
    ELSE IF dist_yx.kind # "value" THEN dist_yx
    ELSE Value(max(dist_xy.val, dist_yx.val))

\* distance_to_set(first1, last1, first2, last2, set_metric, point_metric).
\* The default case prints "Not yet implemented" and flows off the end of a
\* function that returns T: the caller gets an unspecified value, if any.
distance_to_set(set0, set1, set_metric, point_metric, nd) ==
    CASE set_metric = "SDM_HAUSDORFF" ->
             {hausdorff(dist_xy, dist_yx) :
                  dist_xy \in distance_to_set_supinf(set0, set1, point_metric, nd),
                  dist_yx \in distance_to_set_supinf(set1, set0, point_metric, nd)}
      [] set_metric = "SDM_SUPINF" ->
             distance_to_set_supinf(set0, set1, point_metric, nd)
      [] OTHER -> Undefined

----------------------------------------------------------------------------
(* Specification of a single call of distance_to_point() or distance_to_set() *)

\* the enumerated points: 1-D points 0..MaxCoord and three corners of the
\* unit square
Dims == {1, 2}

PointsOfDim(d) ==
    IF d = 1 THEN [1..1 -> 0..MaxCoord] ELSE {<<0, 0>>, <<1, 0>>, <<1, 1>>}

\* the non-empty sets of at most MaxSetSize points of dimension d
SetsOfDim(d) == UNION {[1..k -> PointsOfDim(d)] : k \in 1..MaxSetSize}

\* the examples of the comments of distance_to_point and distance_to_set,
\* and points with negative coordinates
ExamplePointSet ==
    {<< <<1>>, << <<3>>, <<6>> >> >>,
     << <<7>>, << <<3>>, <<6>> >> >>,
     << <<0 - 1, 2>>, << <<1, 0 - 1>>, <<0 - 2, 0>>, <<3, 1>> >> >>}

ExampleSetSet ==
    {<< << <<1>>, <<3>>, <<6>>, <<7>> >>, << <<3>>, <<6>> >> >>,
     << << <<3>>, <<6>> >>, << <<1>>, <<3>>, <<6>>, <<7>> >> >>,
     << << <<0 - 1, 2>>, <<2, 2>> >>, << <<1, 0 - 1>>, <<0 - 2, 0>>, <<3, 1>> >> >>}

PointSetInputs ==
    UNION {[fn : {"distance_to_point"}, set : SetsOfDim(d), point : PointsOfDim(d),
            set_metric : SetDistanceMetric, point_metric : IntMetrics] :
               d \in Dims}
    \cup
    {[fn |-> "distance_to_point", set |-> e[2], point |-> e[1],
      set_metric |-> sm, point_metric |-> pm] :
         e \in ExamplePointSet, sm \in SetDistanceMetric, pm \in IntMetrics}

SetSetInputs ==
    UNION {[fn : {"distance_to_set"}, set0 : SetsOfDim(d), set1 : SetsOfDim(d),
            set_metric : SetDistanceMetric, point_metric : IntMetrics] :
               d \in Dims}
    \cup
    {[fn |-> "distance_to_set", set0 |-> e[1], set1 |-> e[2],
      set_metric |-> sm, point_metric |-> pm] :
         e \in ExampleSetSet, sm \in SetDistanceMetric, pm \in IntMetrics}

InitSet ==
    /\ ndebug \in BOOLEAN
    /\ pc = "call"
    /\ in \in PointSetInputs \cup SetSetInputs
    /\ out = None
    /\ mem = <<>>
    /\ TrackerIdle

CallDistanceToPoint ==
    /\ pc = "call"
    /\ in.fn = "distance_to_point"
    /\ out' \in distance_to_point(in.set, in.point, in.set_metric,
                                  in.point_metric, ndebug)
    /\ pc' = "done"
    /\ UNCHANGED <<ndebug, in, mem, trackerVars>>

CallDistanceToSet ==
    /\ pc = "call"
    /\ in.fn = "distance_to_set"
    /\ out' \in distance_to_set(in.set0, in.set1, in.set_metric,
                                in.point_metric, ndebug)
    /\ pc' = "done"
    /\ UNCHANGED <<ndebug, in, mem, trackerVars>>

NextSet == CallDistanceToPoint \/ CallDistanceToSet

SpecSet == InitSet /\ [][NextSet]_vars

----------------------------------------------------------------------------
(* increaseDistance, decreaseDistance and integral work on containers       *)
(* through iterators: mem holds the containers, in the arguments.           *)

\* a void function returned, or returned the iterator result + val
Returned(n) == [kind |-> "returned", val |-> n]

\* *(first + k - 1) for a container of mem; pad is what lies past its end
Read(m, buf, k, pad) ==
    IF k <= Len(m[buf]) THEN m[buf][k] ELSE pad[k - Len(m[buf])]

\* *(first + k - 1) = v; a write past the end lands outside the containers
Write(m, buf, k, v) ==
    IF k <= Len(m[buf]) THEN [m EXCEPT ![buf][k] = v] ELSE m

\* op_adjust<T>(mu)::operator()(x, y)
op_adjust(mu, x, y) == x + (x - y) * mu

\* std::transform(tomove_first, tomove_last, reference_first, tomove_first, op)
transform(m, mu, pad) ==
    [m EXCEPT !.tomove =
        [i \in 1..Len(m.tomove) |->
            op_adjust(mu, m.tomove[i], Read(m, "reference", i, pad))]]

\* the outcomes <<outcome, mem'>> of the std::transform call of
\* increaseDistance and decreaseDistance
transform_outcomes(m, mu) ==
    LET k == IF Len(m.tomove) > Len(m.reference)
             THEN Len(m.tomove) - Len(m.reference) ELSE 0
    IN  (IF k > 0 THEN {<<Crash, m>>} ELSE {})
        \cup
        {<<Returned(0), transform(m, mu, pad)>> : pad \in [1..k -> Garbage]}

\* increaseDistance(tomove_first, tomove_last, reference_first, mu)
increaseDistance(m, mu, nd) ==
    IF ~nd /\ ~(mu > 0 /\ mu <= 1) THEN {<<Abort, m>>}
    ELSE transform_outcomes(m, mu)

\* decreaseDistance(tomove_first, tomove_last, reference_first, mu)
decreaseDistance(m, mu, nd) ==
    IF ~nd /\ ~(mu > 0 /\ mu <= 1) THEN {<<Abort, m>>}
    ELSE transform_outcomes(m, 0 - mu)

MaxMu == 2           \* the step sizes tried are 0..MaxMu

AdjustInputs ==
    [fn : {"increaseDistance", "decreaseDistance"},
     tomove : SeqsUpTo(Elem, MaxLen), reference : SeqsUpTo(Elem, MaxLen),
     mu : 0..MaxMu]
    \cup
    \* the example x = [0,0], ref = [4,4], mu = 1
    [fn : {"increaseDistance", "decreaseDistance"},
     tomove : {<<0, 0>>}, reference : {<<4, 4>>}, mu : {1}]

InitAdjust ==
    /\ ndebug \in BOOLEAN
    /\ pc = "call"
    /\ in \in AdjustInputs
    /\ out = None
    /\ mem = [tomove |-> in.tomove, reference |-> in.reference]
    /\ TrackerIdle

CallIncreaseDistance ==
    /\ pc = "call"
    /\ in.fn = "increaseDistance"
    /\ \E r \in increaseDistance(mem, in.mu, ndebug) :
           /\ out' = r[1]
           /\ mem' = r[2]
    /\ pc' = "done"
    /\ UNCHANGED <<ndebug, in, trackerVars>>

CallDecreaseDistance ==
    /\ pc = "call"
    /\ in.fn = "decreaseDistance"
    /\ \E r \in decreaseDistance(mem, in.mu, ndebug) :
           /\ out' = r[1]
           /\ mem' = r[2]
    /\ pc' = "done"
    /\ UNCHANGED <<ndebug, in, trackerVars>>

NextAdjust == CallIncreaseDistance \/ CallDecreaseDistance

SpecAdjust == InitAdjust /\ [][NextAdjust]_vars

----------------------------------------------------------------------------
(* integral(first1, last1, first2, result) *)

\* the output container has room for MaxLen + 1 values, none written yet
OutCap == MaxLen + 1

Unwritten == MaxVal * MaxVal * MaxLen + 1

\* value = value + *first1 * *++first2
integral_step_noacc(value, a, b) == a * b

integral_step(value, a, b) == value + a * b

\* the containers after integral has run over [first1, last1), writing through
\* result, an iterator to the start of the container named result
integral_run(m, result, pad) ==
    LET n == Len(m.s1)
        st[k \in 1..n] ==
            IF k = 1
            THEN LET value == m.s1[1] * Read(m, "s2", 1, pad)
                 IN  [m |-> Write(m, result, 1, value), value |-> value]
            ELSE LET prev == st[k - 1]
                     value == integral_step(prev.value, prev.m.s1[k],
                                            Read(prev.m, "s2", k, pad))
                 IN  [m |-> Write(prev.m, result, k, value), value |-> value]
    IN  st[n].m

\* the outcomes <<outcome, mem'>> of integral; the returned iterator is
\* result + val
integral(m, result) ==
    LET n == Len(m.s1)
        k == IF n > Len(m.s2) THEN n - Len(m.s2) ELSE 0
    IN  IF n = 0 THEN {<<Returned(0), m>>}
        ELSE (IF k > 0 \/ n > Len(m[result]) THEN {<<Crash, m>>} ELSE {})
             \cup
             {<<Returned(n), integral_run(m, result, pad)>> :
                  pad \in [1..k -> Garbage]}

IntegralInputs ==
    [fn : {"integral"}, s1 : SeqsUpTo(Elem, MaxLen), s2 : SeqsUpTo(Elem, MaxLen),
     result : {"out", "s1", "s2"}]
    \cup
    \* the example integral([1,2,3],[1,1,1])
    [fn : {"integral"}, s1 : {<<1, 2, 3>>}, s2 : {<<1, 1, 1>>},
     result : {"out", "s1", "s2"}]

InitIntegral ==
    /\ ndebug \in BOOLEAN
    /\ pc = "call"
    /\ in \in IntegralInputs
    /\ out = None
    /\ mem = [s1 |-> in.s1, s2 |-> in.s2,
              out |-> [i \in 1..(IF Len(in.s1) < OutCap THEN OutCap ELSE Len(in.s1) + 1)
                          |-> Unwritten]]
    /\ TrackerIdle

CallIntegral ==
    /\ pc = "call"
    /\ in.fn = "integral"
    /\ \E r \in integral(mem, in.result) :
           /\ out' = r[1]
           /\ mem' = r[2]
    /\ pc' = "done"
    /\ UNCHANGED <<ndebug, in, trackerVars>>

NextIntegral == CallIntegral

SpecIntegral == InitIntegral /\ [][NextIntegral]_vars

----------------------------------------------------------------------------
(* cauchy_product(first1, last1, last2, result) *)

\* *--last2 on its k-th use, last2 having started at position start of s2;
\* pad is what lies before the start of the container
ReadBack(m, start, k, pad) ==
    IF start - k >= 0 THEN m.s2[start - k + 1] ELSE pad[k - start]

\* value = value + *first1 * *--last2
cauchy_step(value, a, b) == value + a * b

\* the containers after cauchy_product has run over [first1, last1)
cauchy_run(m, start, pad) ==
    LET n == Len(m.s1)
        st[k \in 1..n] ==
            IF k = 1
            THEN LET value == m.s1[1] * ReadBack(m, start, 1, pad)
                 IN  [m |-> Write(m, "out", 1, value), value |-> value]
            ELSE LET prev == st[k - 1]
                     value == cauchy_step(prev.value, prev.m.s1[k],
                                          ReadBack(prev.m, start, k, pad))
                 IN  [m |-> Write(prev.m, "out", k, value), value |-> value]
    IN  st[n].m

\* the outcomes <<outcome, mem'>> of cauchy_product; last2 is "end" for an
\* iterator past the last element of the second container and "last" for an
\* iterator to its last element; the returned iterator is result + val
cauchy_product(m, last2) ==
    LET n == Len(m.s1)
        start == IF last2 = "end" THEN Len(m.s2) ELSE Len(m.s2) - 1
        k == IF n > start THEN n - start ELSE 0
    IN  IF n = 0 THEN {<<Returned(0), m>>}
        ELSE (IF k > 0 \/ n > Len(m.out) THEN {<<Crash, m>>} ELSE {})
             \cup
             {<<Returned(n), cauchy_run(m, start, pad)>> :
                  pad \in [1..k -> Garbage]}

CauchyInputs ==
    [fn : {"cauchy_product"}, s1 : SeqsUpTo(Elem, MaxLen),
     s2 : SeqsUpTo(Elem, MaxLen), last2 : {"end", "last"}]

InitCauchy ==
    /\ ndebug \in BOOLEAN
    /\ pc = "call"
    /\ in \in CauchyInputs
    /\ out = None
    /\ mem = [s1 |-> in.s1, s2 |-> in.s2, out |-> [i \in 1..OutCap |-> Unwritten]]
    /\ TrackerIdle

CallCauchyProduct ==
    /\ pc = "call"
    /\ in.fn = "cauchy_product"
    /\ \E r \in cauchy_product(mem, in.last2) :
           /\ out' = r[1]
           /\ mem' = r[2]
    /\ pc' = "done"
    /\ UNCHANGED <<ndebug, in, trackerVars>>

NextCauchy == CallCauchyProduct

SpecCauchy == InitCauchy /\ [][NextCauchy]_vars

----------------------------------------------------------------------------
(* circular_convolution(first1, last1, first2, last2, result, shift) *)

MaxCalls == 2        \* consecutive calls made on the same pair of containers

\* the elements of the containers handed to circular_convolution
ConvElem == {0 - 1, 1, 2}

\* std::rotate(first2, last2 - shift, last2) for 0 <= shift <= Len(s): the
\* element at last2 - shift becomes the first one
rotate(s, shift) ==
    SubSeq(s, Len(s) - shift + 1, Len(s)) \o SubSeq(s, 1, Len(s) - shift)

\* reverse_inner_product(first1, last1, last2, init): the first container
\* forwards against the second one backwards from its last element
reverse_inner_product(m, init, pad) ==
    LET acc[k \in 0..Len(m.s1)] ==
            IF k = 0 THEN init
            ELSE acc[k - 1] + m.s1[k] * ReadBack(m, Len(m.s2), k, pad)
    IN  acc[Len(m.s1)]

\* dist = std::distance(first1, last1): the number of passes of the loop
rounds_short(m) == IF Len(m.s1) > 0 THEN Len(m.s1) - 1 ELSE 0

rounds(m) == Len(m.s1)

\* the containers after the loop of circular_convolution
convolution_run(m, shift, pad) ==
    LET st[j \in 0..rounds(m)] ==
            IF j = 0 THEN m
            ELSE LET rotated == [st[j - 1] EXCEPT !.s2 = rotate(@, shift)]
                 IN  Write(rotated, "out", j,
                           reverse_inner_product(rotated, 0, pad))
    IN  st[rounds(m)]

\* the outcomes <<outcome, mem'>> of circular_convolution; the returned
\* iterator is result + val.  A shift outside 0..Len(s2) makes last2 - shift
\* an iterator outside the container: the process dies, or the call returns
\* with unspecified contents.
circular_convolution(m, shift) ==
    LET n == Len(m.s1)
        k == IF n > Len(m.s2) THEN n - Len(m.s2) ELSE 0
    IN  IF n = 0 THEN {<<Returned(0), m>>}
        ELSE IF shift < 0 \/ shift > Len(m.s2)
        THEN {<<Crash, m>>} \cup
             {<<Returned(n),
                [m EXCEPT !.s2 = [i \in 1..Len(m.s2) |-> g],
                          !.out = [i \in 1..Len(m.out) |->
                                      IF i <= n THEN g ELSE m.out[i]]]>> :
                  g \in Garbage}
        ELSE (IF k > 0 \/ n > Len(m.out) THEN {<<Crash, m>>} ELSE {})
             \cup
             {<<Returned(rounds(m)), convolution_run(m, shift, pad)>> :
                  pad \in [1..k -> Garbage]}

\* s1 and s2 are the containers as they are before the first call, shift the
\* shift of the latest call, calls the number of calls made
ConvInputs ==
    [fn : {"circular_convolution"}, s1 : SeqsUpTo(ConvElem, MaxLen),
     s2 : SeqsUpTo(ConvElem, MaxLen), shift : {1}, calls : {0}]
    \cup
    [fn : {"circular_convolution"}, s1 : {<<1, 2, 0>>, <<1, 0, 0>>},
     s2 : {<<1, 0, 0 - 1>>, <<2, 1, 0>>}, shift : {1}, calls : {0}]

InitConv ==
    /\ ndebug \in BOOLEAN
    /\ pc = "call"
    /\ in \in ConvInputs
    /\ out = None
    /\ mem = [s1 |-> in.s1, s2 |-> in.s2,
              out |-> [i \in 1..(IF Len(in.s1) < OutCap THEN OutCap ELSE Len(in.s1) + 1)
                          |-> Unwritten]]
    /\ TrackerIdle

CallCircularConvolution ==
    /\ pc \in {"call", "done"}
    /\ in.fn = "circular_convolution"
    /\ in.calls < MaxCalls
    /\ \E shift \in 0..(MaxLen + 1) :
           /\ in' = [in EXCEPT !.shift = shift, !.calls = @ + 1]
           /\ \E r \in circular_convolution(mem, shift) :
                  /\ out' = r[1]
                  /\ mem' = r[2]
    /\ pc' = IF out' = Crash THEN "dead" ELSE "done"
    /\ UNCHANGED <<ndebug, trackerVars>>

NextConv == CallCircularConvolution

SpecConv == InitConv /\ [][NextConv]_vars

----------------------------------------------------------------------------
(* PositionParticleFilter.  The header declares the operations; their       *)
(* bodies follow the tracker's state machine: Uninitialized -> Init ->      *)
(* Ready, a Step being Transition of all particles, then Likelihood of all  *)
(* particles.  Transition or Likelihood before Init is a contract error.    *)

NumParticles == 1    \* particles in the cloud
MaxPos == 1          \* the image has columns 0..MaxPos

\* the call was rejected as a contract error
ContractError == [kind |-> "contract_error", val |-> 0]

\* std::vector<Value> auto_coeff: second-order autoregression, oldest first
auto_coeff == <<0 - 1, 2>>

\* the perturbation the random source adds to a prediction
Noise == {0 - 1, 0, 1}

\* normalized histograms: two bins that sum to a fixed total
Histograms == {<<0, 2>>, <<1, 1>>, <<2, 0>>}

\* screen positions: the columns of the image, and its single row
Pos == 0..MaxPos

Row == {0}

\* struct ParticleState, with the weight the particle filter keeps for it
ParticleState ==
    [x : [1..2 -> Pos], y : [1..2 -> Row], width : {1}, height : {1},
     weight : {0 - 1} \cup 0..4]

\* the cloud Init seeds: every particle has a full history, no weight yet
SeededClouds ==
    [1..NumParticles ->
        {[x |-> <<px, px>>, y |-> <<py, py>>, width |-> 1, height |-> 1,
          weight |-> 0 - 1] : px \in Pos, py \in Row}]

\* Transition(oldp), one axis: the weighted sum of the history plus noise
Predict(history, noise) ==
    auto_coeff[1] * history[1] + auto_coeff[2] * history[2] + noise

\* doTransition(oldp): the oldest sample is dropped, the prediction appended
doTransition(oldp, nx, ny) ==
    [oldp EXCEPT !.x = <<oldp.x[2], Predict(oldp.x, nx)>>,
                 !.y = <<oldp.y[2], Predict(oldp.y, ny)>>]

\* Transition(): transition of all particles
Transition(c, nx, ny) == [i \in 1..Len(c) |-> doTransition(c[i], nx[i], ny[i])]

\* Likelihood(state): the distance of the region's histogram to the reference
Likelihood(region_histogram, reference) ==
    distance_switch(region_histogram, reference, "DM_MANHATTAN")

\* Likelihood(region_size): likelihood of all particles
LikelihoodAll(c, region_histograms, reference) ==
    [i \in 1..Len(c) |->
        [c[i] EXCEPT !.weight = Likelihood(region_histograms[i], reference)]]

\* a call the tracker rejects: Transition or Likelihood before Init
Rejects_never(st) == FALSE

Rejects(st) == st = "Uninitialized"

InBounds(c) == \A i \in 1..Len(c) : c[i].x[2] \in Pos /\ c[i].y[2] \in Row

InitTracker ==
    /\ ndebug = FALSE
    /\ pc = "call"
    /\ in = [fn |-> "PositionParticleFilter"]
    /\ out = None
    /\ mem = <<>>
    /\ TrackerIdle

\* Init(tracked_object_histogram)
TrackerInit ==
    /\ \E h \in Histograms, c \in SeededClouds :
           /\ tracked_object_histogram' = h
           /\ cloud' = c
    /\ state' = "Ready"
    /\ in' = [fn |-> "Init"]
    /\ out' = Returned(0)
    /\ UNCHANGED <<ndebug, pc, mem>>

\* Transition()
TrackerTransition ==
    /\ in' = [fn |-> "Transition"]
    /\ IF Rejects(state)
       THEN /\ out' = ContractError
            /\ UNCHANGED <<cloud>>
       ELSE /\ \E nx \in [1..Len(cloud) -> Noise], ny \in [1..Len(cloud) -> Noise] :
                   /\ cloud' = Transition(cloud, nx, ny)
                   /\ InBounds(cloud')
            /\ out' = Returned(0)
    /\ UNCHANGED <<ndebug, pc, mem, state, tracked_object_histogram>>

\* Likelihood(region_size)
TrackerLikelihood ==
    /\ in' = [fn |-> "Likelihood"]
    /\ IF Rejects(state)
       THEN /\ out' = ContractError
            /\ UNCHANGED <<cloud>>
       ELSE /\ \E hs \in [1..Len(cloud) -> Histograms] :
                   cloud' = LikelihoodAll(cloud, hs, tracked_object_histogram)
            /\ out' = Returned(0)
    /\ UNCHANGED <<ndebug, pc, mem, state, tracked_object_histogram>>

\* one frame: Transition of all particles, then Likelihood of all particles
TrackerStep ==
    /\ ~Rejects(state)
    /\ in' = [fn |-> "Step"]
    /\ \E nx \in [1..Len(cloud) -> Noise], ny \in [1..Len(cloud) -> Noise],
          hs \in [1..Len(cloud) -> Histograms] :
           LET moved == Transition(cloud, nx, ny)
           IN  /\ InBounds(moved)
               /\ cloud' = LikelihoodAll(moved, hs, tracked_object_histogram)
    /\ out' = Returned(0)
    /\ UNCHANGED <<ndebug, pc, mem, state, tracked_object_histogram>>

NextTracker == TrackerInit \/ TrackerTransition \/ TrackerLikelihood \/ TrackerStep

SpecTracker == InitTracker /\ [][NextTracker]_vars

----------------------------------------------------------------------------
(* Reference definitions used to state the claims about distance() *)

RECURSIVE SumSeq(_)
SumSeq(s) == IF s = <<>> THEN 0 ELSE Head(s) + SumSeq(Tail(s))

AbsDiff(a, b) == IF a < b THEN b - a ELSE a - b

DistanceDone == pc = "done" /\ in.fn = "distance"

\* C1: for every metric selector, distance on two sequences of different
\* lengths fails with a length-mismatch error and returns no numeric result
\* (it never computes a value from a common prefix).
C1_MismatchFails ==
    (DistanceDone /\ Len(in.s1) # Len(in.s2)) => out.kind = "abort"

\* C2: distance with a selector outside the eight defined metrics fails with
\* an "unsupported metric" condition and returns no numeric value.
C2_UnknownMetricFails ==
    (DistanceDone /\ Len(in.s1) = Len(in.s2) /\ in.metric \notin DefinedMetrics)
        => out.kind # "value"

\* C3: for equal-length integer sequences x and y (negative elements and the
\* empty sequence included) distance returns sum_i x[i]*y[i] for DM_DOTPRODUCT,
\* sum_i |x[i]-y[i]| for DM_MANHATTAN and max_i |x[i]-y[i]| for DM_CHEBYSHEV
\* (0 for the empty sequence, where there is no i).
C3_Formulas ==
    (DistanceDone /\ Len(in.s1) = Len(in.s2)) =>
        LET n == Len(in.s1)
            x == in.s1
            y == in.s2
        IN  /\ in.metric = "DM_DOTPRODUCT" =>
                out = Value(SumSeq([i \in 1..n |-> x[i] * y[i]]))
            /\ in.metric = "DM_MANHATTAN" =>
                out = Value(SumSeq([i \in 1..n |-> AbsDiff(x[i], y[i])]))
            /\ in.metric = "DM_CHEBYSHEV" =>
                out = Value(MaxOf({AbsDiff(x[i], y[i]) : i \in 1..n}))

\* a Chebyshev distance of sequences with negative elements has been returned
C3_Witness ==
    /\ DistanceDone
    /\ in.metric = "DM_CHEBYSHEV"
    /\ in.s1 = <<0 - 2, 1>>
    /\ in.s2 = <<1, 0 - 1>>
    /\ out = Value(3)

----------------------------------------------------------------------------
(* Claims about distance_to_point() and distance_to_set() *)

PointDone == pc = "done" /\ in.fn = "distance_to_point"

SetDone == pc = "done" /\ in.fn = "distance_to_set"

\* the distances distance(q, p, m) for q in the set S
DistancesTo(S, p, m) == {distance_switch(S[i], p, m) : i \in 1..Len(S)}

\* the largest member of a non-empty finite set of integers
Largest(S) == CHOOSE m \in S : \A v \in S : v <= m

\* max over p in A of (min over q in B of distance(q, p, m))
SupInf(A, B, m) == Largest({MinOf(DistancesTo(B, A[i], m)) : i \in 1..Len(A)})

\* C4: for a point p, a non-empty set S of points of p's length and a point
\* metric m, distance_to_point returns min {distance(q, p, m) : q in S} with
\* SDM_INFIMIM and max {distance(q, p, m) : q in S} with SDM_SUPREMUM; in 1-D
\* Manhattan d(1,{3,6}) = 2 and d(7,{3,6}) = 1 for the infimum.
C4_InfSup ==
    PointDone =>
        /\ in.set_metric = "SDM_INFIMIM" =>
               out = Value(MinOf(DistancesTo(in.set, in.point, in.point_metric)))
        /\ in.set_metric = "SDM_SUPREMUM" =>
               out = Value(Largest(DistancesTo(in.set, in.point, in.point_metric)))
        /\ (/\ in.set_metric = "SDM_INFIMIM"
            /\ in.point_metric = "DM_MANHATTAN"
            /\ in.set = << <<3>>, <<6>> >>) =>
               /\ in.point = <<1>> => out = Value(2)
               /\ in.point = <<7>> => out = Value(1)

\* the infimum of the documented example d(1,{3,6}) has been returned
C4_Witness ==
    /\ PointDone
    /\ in.set_metric = "SDM_INFIMIM"
    /\ in.point_metric = "DM_MANHATTAN"
    /\ in.set = << <<3>>, <<6>> >>
    /\ in.point = <<1>>
    /\ out = Value(2)

\* C5: for non-empty point sets A and B and a point metric m, distance_to_set
\* returns max over p in A of (min over q in B of distance(q, p, m)) with
\* SDM_SUPINF and the larger of SUPINF(A,B) and SUPINF(B,A) with SDM_HAUSDORFF;
\* in 1-D SUPINF({1,3,6,7},{3,6}) = 2 while SUPINF({3,6},{1,3,6,7}) = 0.
C5_SupInfHausdorff ==
    SetDone =>
        LET A == in.set0
            B == in.set1
            m == in.point_metric
        IN  /\ in.set_metric = "SDM_SUPINF" => out = Value(SupInf(A, B, m))
            /\ in.set_metric = "SDM_HAUSDORFF" =>
                   out = Value(max(SupInf(A, B, m), SupInf(B, A, m)))
            /\ (in.set_metric = "SDM_SUPINF" /\ m = "DM_MANHATTAN") =>
                   /\ (A = << <<1>>, <<3>>, <<6>>, <<7>> >> /\ B = << <<3>>, <<6>> >>)
                          => out = Value(2)
                   /\ (B = << <<1>>, <<3>>, <<6>>, <<7>> >> /\ A = << <<3>>, <<6>> >>)
                          => out = Value(0)

\* SUPINF of the documented example {1,3,6,7} against {3,6} has been returned
C5_Witness ==
    /\ SetDone
    /\ in.set_metric = "SDM_SUPINF"
    /\ in.point_metric = "DM_MANHATTAN"
    /\ in.set0 = << <<1>>, <<3>>, <<6>>, <<7>> >>
    /\ in.set1 = << <<3>>, <<6>> >>
    /\ out = Value(2)

\* C6: for any point metric m and non-empty point sets A and B,
\* distance_to_set(A, B, SDM_HAUSDORFF, m) = distance_to_set(B, A, SDM_HAUSDORFF, m).
C6_HausdorffSymmetric ==
    (SetDone /\ in.set_metric = "SDM_HAUSDORFF") =>
        distance_to_set(in.set1, in.set0, "SDM_HAUSDORFF", in.point_metric, ndebug)
            = {out}

\* a Hausdorff distance has been returned for sets whose two directed
\* distances differ (SUPINF(A,B) = 0, SUPINF(B,A) = 2)
C6_Witness ==
    /\ SetDone
    /\ in.set_metric = "SDM_HAUSDORFF"
    /\ in.point_metric = "DM_MANHATTAN"
    /\ in.set0 = << <<3>>, <<6>> >>
    /\ in.set1 = << <<1>>, <<3>>, <<6>>, <<7>> >>
    /\ out = Value(2)

\* C7: a set-distance operation called with a selector it does not implement
\* ends in a "not implemented" failure; it never returns a numeric value to
\* the caller.
C7_NotImplementedFails ==
    (\/ PointDone /\ in.set_metric \notin Implemented_point
     \/ SetDone /\ in.set_metric \notin Implemented_set)
        => out.kind # "value"

----------------------------------------------------------------------------
(* Claims about increaseDistance() and integral() *)

\* C8: increaseDistance (documented as d = d + mu (ref - d)) called with
\* mu = 1 leaves every element of the moved sequence equal to the
\* corresponding element of the reference, for equal-length sequences.
C8_MuOneReplaces ==
    (/\ pc = "done"
     /\ in.fn = "increaseDistance"
     /\ in.mu = 1
     /\ Len(in.tomove) = Len(in.reference))
        => /\ out = Returned(0)
           /\ \A i \in 1..Len(in.tomove) : mem.tomove[i] = in.reference[i]

\* sum over i in 1..k of s1[i] * s2[i]
PrefixDot(s1, s2, k) == SumSeq([i \in 1..k |-> s1[i] * s2[i]])

\* C10: for equal-length integer sequences s1 and s2 of length n, integral
\* writes exactly n outputs, output k being the sum of s1[i]*s2[i] up to k
\* ([1,2,3] and [1,1,1] give [1,3,6]), writes nothing for n = 0, and leaves
\* s1 and s2 unchanged when the output is a separate sequence.
C10_Integral ==
    (pc = "done" /\ in.fn = "integral" /\ Len(in.s1) = Len(in.s2)) =>
        LET n == Len(in.s1)
            written == mem[in.result]
        IN  /\ out = Returned(n)
            /\ \A k \in 1..n : written[k] = PrefixDot(in.s1, in.s2, k)
            /\ in.result = "out" =>
                   /\ \A k \in (n + 1)..Len(mem.out) : mem.out[k] = Unwritten
                   /\ mem.s1 = in.s1
                   /\ mem.s2 = in.s2
            /\ n = 0 => mem = [s1 |-> in.s1, s2 |-> in.s2,
                               out |-> [i \in 1..OutCap |-> Unwritten]]
            /\ (in.s1 = <<1, 2, 3>> /\ in.s2 = <<1, 1, 1>> /\ in.result = "out") =>
                   SubSeq(mem.out, 1, 3) = <<1, 3, 6>>

\* the running sums of the example have been written to a separate output
C10_Witness ==
    /\ pc = "done"
    /\ in.fn = "integral"
    /\ in.s1 = <<1, 2, 3>>
    /\ in.s2 = <<1, 1, 1>>
    /\ in.result = "out"
    /\ mem.out = <<1, 3, 6, Unwritten>>
    /\ out = Returned(3)

----------------------------------------------------------------------------
(* Claims about the tracker *)

\* C9: a Transition or Likelihood call before the first Init is rejected as a
\* contract error and leaves the particle cloud and the reference histogram
\* unchanged; after Init, any number of Step calls keep the tracker Ready.
C9_Lifecycle ==
    [][/\ (state = "Uninitialized" /\ in'.fn \in {"Transition", "Likelihood"}) =>
              /\ out' = ContractError
              /\ cloud' = cloud
              /\ tracked_object_histogram' = tracked_object_histogram
              /\ state' = "Uninitialized"
       /\ (state = "Ready" /\ in'.fn = "Step") =>
              /\ state' = "Ready"
              /\ out' = Returned(0)]_vars

\* a Step has run on an initialized tracker: every particle carries a weight
C9_Witness ==
    /\ state = "Ready"
    /\ in.fn = "Step"
    /\ out = Returned(0)
    /\ \A i \in 1..Len(cloud) : cloud[i].weight >= 0
    /\ \E i \in 1..Len(cloud) : cloud[i].x[1] # cloud[i].x[2]

----------------------------------------------------------------------------
(* Claims about the Euclidean distance *)

\* C11: for equal-length sequences a and b, distance(a, b, DM_EUCLIDEAN)
\* equals distance(b, a, DM_EUCLIDEAN), and distance(a, a, DM_EUCLIDEAN) is 0.
C11_EuclideanSymmetric ==
    (DistanceDone /\ in.metric = "DM_EUCLIDEAN" /\ Len(in.s1) = Len(in.s2)) =>
        /\ distance(in.s2, in.s1, "DM_EUCLIDEAN", ndebug) = {out}
        /\ in.s1 = in.s2 => out = Value(0)

\* a non-zero Euclidean distance of two different sequences has been returned
C11_Witness ==
    /\ DistanceDone
    /\ in.metric = "DM_EUCLIDEAN"
    /\ in.s1 = <<2, 0 - 1>>
    /\ in.s2 = <<0 - 1, 1>>
    /\ out = Value(3)

----------------------------------------------------------------------------
(* Claims about the histogram metrics *)

\* C12: for normalized non-negative histograms a and b of equal length,
\* distance(a, b, DM_SQUARED_HELLINGER) equals
\* 1 - distance(a, b, DM_BHATTACHARYYA_COEFFICIENT), within the tolerance of
\* the number representation (one unit, 1 / Scale).
C12_SquaredHellinger ==
    (DistanceDone /\ in.metric = "DM_SQUARED_HELLINGER") =>
        /\ out.kind = "value"
        /\ AbsDiff(out.val,
                   One - distance_switch(in.s1, in.s2,
                                         "DM_BHATTACHARYYA_COEFFICIENT")) <= 1

----------------------------------------------------------------------------
(* Claims about cauchy_product() and circular_convolution() *)

\* the Cauchy product term c_n = sum over k in 0..n of a[k] * b[n-k], for
\* sequences indexed from 1
CauchyTerm(a, b, n) == SumSeq([k \in 1..(n + 1) |-> a[k] * b[n + 2 - k]])

\* C13: for equal-length integer sequences a and b of length N,
\* cauchy_product writes N outputs and output n is the Cauchy product term
\* c_n, for every n in 0..N-1 (last2 being the end of b, the call in which
\* every read stays inside b).
C13_CauchyTerms ==
    (/\ pc = "done"
     /\ in.fn = "cauchy_product"
     /\ in.last2 = "end"
     /\ Len(in.s1) = Len(in.s2)) =>
        LET N == Len(in.s1)
        IN  /\ out = Returned(N)
            /\ \A n \in 0..(N - 1) : mem.out[n + 1] = CauchyTerm(in.s1, in.s2, n)

\* sum over k in 0..n-1 of a[k] * b[(t - k) mod n], for sequences indexed
\* from 1
ConvTerm(a, b, t) ==
    LET n == Len(a)
    IN  SumSeq([k \in 1..n |-> a[k] * b[((t - (k - 1) + n * n) % n) + 1]])

\* C14: for integer sequences a and b of equal length n and a shift s with
\* 1 <= s < n, circular_convolution writes exactly n outputs and the j-th
\* output (j = 1..n) is the sum over k of a[k] * b[(j*s - k) mod n].
C14_ConvolutionTerms ==
    (/\ pc = "done"
     /\ in.fn = "circular_convolution"
     /\ in.calls = 1
     /\ Len(in.s1) = Len(in.s2)
     /\ 1 <= in.shift
     /\ in.shift < Len(in.s1)) =>
        LET n == Len(in.s1)
        IN  /\ out = Returned(n)
            /\ \A j \in 1..n : mem.out[j] = ConvTerm(in.s1, in.s2, j * in.shift)
            /\ \A j \in (n + 1)..Len(mem.out) : mem.out[j] = Unwritten

\* C15: circular_convolution rotates its second sequence in place, but when
\* both sequences have the same length n and 0 <= shift <= n the second
\* sequence holds on return exactly what it held at the call, and the first
\* sequence is not modified; so consecutive calls leave the second sequence
\* in its original order.
C15_SecondRestored ==
    [][(/\ in'.fn = "circular_convolution"
        /\ in'.calls = in.calls + 1
        /\ Len(mem.s1) = Len(mem.s2)
        /\ in'.shift <= Len(mem.s1)) =>
           /\ out' = Returned(Len(mem.s1))
           /\ mem'.s2 = mem.s2
           /\ mem'.s1 = mem.s1
           /\ (mem.s2 = in.s2 => mem'.s2 = in'.s2)]_vars

\* two consecutive calls have returned and the second sequence, which a
\* single rotation by the shift would change, is in its original order
C15_Witness ==
    /\ pc = "done"
    /\ in.fn = "circular_convolution"
    /\ in.calls = 2
    /\ in.shift = 1
    /\ in.s1 = <<1, 2, 0>>
    /\ in.s2 = <<1, 0, 0 - 1>>
    /\ mem.s2 = in.s2
    /\ rotate(mem.s2, in.shift) # mem.s2
    /\ out = Returned(3)

====
